---- MODULE Spec2Model ----
(***************************************************************************)
(* The tracking / sharing / restore coordinator of chasm (util.go).        *)
(*                                                                         *)
(* A path is a sequence of names, a name is a sequence of characters, file *)
(* bytes are a sequence of lines, a line is a sequence of characters.  The *)
(* single process-wide `preferences` value, the local disk and the share   *)
(* folders of the cloud stores are the state.                              *)
(* Every operation of util.go is one action that runs the whole call.      *)
(***************************************************************************)
EXTENDS Integers, Sequences, FiniteSets, TLC

\* ---------------------------------------------------------------- bounds
MaxCalls == 3          \* AddFile / DeleteFile / Restore calls in one run
MaxEnv == 1            \* steps of the environment (user, backends) in one run
MaxFolderStores == 1   \* configured local-folder stores
MaxGDriveStores == 1   \* configured remote-drive stores

\* ------------------------------------------------------- names and paths
chasmPrefFile == <<".", "c", "h", "a", "s", "m">>
chasmIgnoreFile == <<".", "c", "h", "a", "s", "m", "i", "g", "n", "o", "r", "e">>
DSStore == <<".", "D", "S", "_", "S", "t", "o", "r", "e">>

Root == << <<"root">> >>

\* path.Clean on a rooted, separator-split path: "." elements are dropped.
Dot == <<".">>
Clean(p) == SelectSeq(p, LAMBDA n : n # Dot)

\* path.Join(dir, name): concatenate, then Clean.
Join(dir, name) == Clean(Append(dir, name))

\* filepath.Base: the last element, taken from the path as written.
Base(p) == IF p = <<>> THEN Dot ELSE p[Len(p)]

\* path.Split(filePath): everything up to the final separator.
SplitDir(p) == IF p = <<>> THEN <<>> ELSE SubSeq(p, 1, Len(p) - 1)

chasmFilePath == Join(Root, chasmPrefFile)
chasmIgnorePath == Join(Root, chasmIgnoreFile)

\* The tree under the root that the runs work on.
DirD == Join(Root, <<"D">>)
DirS == Join(DirD, <<"S">>)
FileA == Join(DirD, <<"a", ".", "t">>)
FileJunk == Join(DirD, DSStore)
FileC == Join(DirS, <<"c">>)
FileE == Join(DirS, <<"e">>)
DirDDot == Append(DirD, Dot)          \* "root/D/." : D, written uncleaned

AllPaths == {Root, chasmFilePath, chasmIgnorePath, DirD, DirS, FileA, FileJunk, FileC, FileE}
UserFiles == {FileA, FileJunk, FileC, FileE}

\* ioutil.ReadDir returns the entries sorted by file name (byte order).
SortedNames(dir) ==
    IF dir = Root THEN << chasmPrefFile, chasmIgnoreFile, <<"D">> >>
    ELSE IF dir = DirD THEN << DSStore, <<"S">>, <<"a", ".", "t">> >>
    ELSE IF dir = DirS THEN << <<"c">>, <<"e">> >>
    ELSE <<>>

\* --------------------------------------------------------------- contents
\* File bytes: text (lines), or the JSON document of a ChasmPref, or bytes
\* that are neither (what combining unrelated shares yields).
NoPrefs == [FolderStores |-> <<>>, GDriveStores |-> <<>>, FileMap |-> <<>>, DirMap |-> {}]
Text(lines) == [t |-> "text", lines |-> lines, prefs |-> NoPrefs]
Json(p) == [t |-> "json", lines |-> <<>>, prefs |-> p]
Garbage == [t |-> "garbage", lines |-> <<>>, prefs |-> NoPrefs]
EmptyBytes == Text(<<>>)

\* len(bytes)
ByteLen(c) == IF c.t = "text" THEN Len(c.lines) ELSE 1

defaultIgnore == Text(<< DSStore >>)

LineX == <<"x">>
LineY == <<"y">>
UserContents == {EmptyBytes, Text(<<LineX>>), Text(<<LineY>>)}
IgnoreContents == {EmptyBytes, Text(<< <<"[">>, <<"*", ".", "t">> >>), Text(<< <<"D">> >>)}

\* ------------------------------------------------------- SHA256 helpers
\* SHA256Base64URL: collision-free digest; the empty string is no digest.
EmptyHash == <<>>
SHA256Base64URL(data) == <<data>>

checkSHA2(hash, data) == SHA256Base64URL(data) = hash

\* ------------------------------------------------------------ share ids
ShareID(name) == [name |-> name, k |-> 0]
RandomShareID(k) == [name |-> <<"random">>, k |-> k]
NoSID == [name |-> <<>>, k |-> 0]

\* ------------------------------------------------------------ glob match
\* filepath.Match for patterns of literals, "?" and "*"; a pattern with an
\* unterminated "[" is malformed: Match reports ErrBadPattern and no match.
RECURSIVE Glob(_, _)
Glob(pattern, name) ==
    IF pattern = <<>> THEN name = <<>>
    ELSE IF Head(pattern) = "*"
         THEN \E k \in 0..Len(name) : Glob(Tail(pattern), SubSeq(name, k + 1, Len(name)))
    ELSE IF name = <<>> THEN FALSE
    ELSE IF Head(pattern) = "?" THEN Glob(Tail(pattern), Tail(name))
    ELSE Head(pattern) = Head(name) /\ Glob(Tail(pattern), Tail(name))

BadPattern(pattern) == \E i \in 1..Len(pattern) : pattern[i] = "["

Match(pattern, name) == ~BadPattern(pattern) /\ Glob(pattern, name)

\* ------------------------------------------------------------ the stores
FolderStore(i) == [kind |-> "folder", n |-> i]
GDriveStore(i) == [kind |-> "gdrive", n |-> i]
NoStore == [kind |-> "none", n |-> 0]
AllStores == {FolderStore(i) : i \in 1..MaxFolderStores} \cup {GDriveStore(i) : i \in 1..MaxGDriveStores}

\* RegisteredServices counts all services
RegisteredServices(p) == Len(p.FolderStores) + Len(p.GDriveStores)

\* NeedSetup checks if there are enough services to run
NeedSetup(p) == RegisteredServices(p) < 2

\* faulty variant: the drive stores enumerated first
AllCloudStoresSwapped(p) == p.GDriveStores \o p.FolderStores

\* AllCloudStores: the folder stores, then the drive stores
AllCloudStores(p) == p.FolderStores \o p.GDriveStores

\* ------------------------------------------------- maps of the ChasmPref
FileShare(sid, hash) == [SID |-> sid, Hash |-> hash]
Put(f, k, v) == [x \in DOMAIN f \cup {k} |-> IF x = k THEN v ELSE f[x]]
Remove(f, k) == [x \in DOMAIN f \ {k} |-> f[x]]

\* json.MarshalIndent of a ChasmPref: the exported fields (root is not one)
Marshal(p) == Json([FolderStores |-> p.FolderStores, GDriveStores |-> p.GDriveStores,
                    FileMap |-> p.FileMap, DirMap |-> p.DirMap])

\* faulty variant: the error of json.Unmarshal is not looked at
UnmarshalErrIgnored(bytes) == TRUE

\* json.Unmarshal into a zero ChasmPref: fails on bytes that are no JSON
UnmarshalOk(bytes) == bytes.t = "json"
Unmarshal(bytes) == [root |-> <<>>, FolderStores |-> bytes.prefs.FolderStores,
                     GDriveStores |-> bytes.prefs.GDriveStores,
                     FileMap |-> bytes.prefs.FileMap, DirMap |-> bytes.prefs.DirMap]

\* ------------------------------------------------------------ local disk
NoFile == [kind |-> "none", data |-> EmptyBytes, fault |-> "none"]
RegularFile(data) == [kind |-> "file", data |-> data, fault |-> "none"]
Directory == [kind |-> "dir", data |-> EmptyBytes, fault |-> "none"]

\* os.Open + Stat: the entry the path names; "x/." names x only if x is a directory
Stat(disk, p) ==
    LET q == Clean(p) IN
    IF q \notin DOMAIN disk THEN NoFile
    ELSE IF q # p /\ disk[q].kind # "dir" THEN NoFile
    ELSE disk[q]

\* ioutil.ReadDir: names of the entries of the directory, sorted
ReadDir(disk, p) ==
    LET dir == Clean(p) IN
    SelectSeq(SortedNames(dir), LAMBDA n : Stat(disk, Join(dir, n)).kind # "none")

\* the directory and all its ancestors are directories
RECURSIVE DirExists(_, _)
DirExists(disk, p) ==
    IF p = <<>> THEN TRUE
    ELSE p \in DOMAIN disk /\ disk[p].kind = "dir" /\ DirExists(disk, SplitDir(p))

\* os.MkdirAll: creates the directory and the missing ancestors; fails when a
\* file is in the way
RECURSIVE MkdirAll(_, _)
MkdirAll(disk, p) ==
    IF p = <<>> \/ p \notin DOMAIN disk THEN disk
    ELSE LET up == MkdirAll(disk, SplitDir(p)) IN
         IF ~DirExists(up, SplitDir(p)) \/ up[p].kind = "file" THEN up
         ELSE [up EXCEPT ![p] = Directory]

\* ioutil.WriteFile: create or truncate; fails when the parent is missing or
\* the path is a directory
CanWrite(disk, p) ==
    /\ p \in DOMAIN disk
    /\ disk[p].kind # "dir"
    /\ DirExists(disk, SplitDir(p))
WriteFile(disk, p, data) ==
    IF CanWrite(disk, p) THEN [disk EXCEPT ![p] = [kind |-> "file", data |-> data, fault |-> @.fault]]
    ELSE disk

\* ------------------------------------------------------- secret sharing
\* CreateShares / CombineShares (n-of-n): a share is named by the secret it
\* was cut from, the run of the split (nonce) and its position; a share that
\* was altered in the store carries ok = FALSE.  Combining gives the secret
\* back only from the n untouched shares of one split, and unrelated bytes
\* otherwise.
ShareData(of, nonce, idx, n) == [of |-> of, nonce |-> nonce, idx |-> idx, n |-> n, ok |-> TRUE]
Share(sid, data) == [SID |-> sid, Data |-> data]

CreateShares(secret, sid, n, nonce) ==
    [i \in 1..n |-> Share(sid, ShareData(secret, nonce, i, n))]

CombineShares(shares) ==
    IF Len(shares) = 0 THEN EmptyBytes
    ELSE LET d == shares[1].Data IN
         IF \A i \in 1..Len(shares) :
                /\ shares[i].Data.ok
                /\ shares[i].Data.of = d.of
                /\ shares[i].Data.nonce = d.nonce
                /\ shares[i].Data.n = Len(shares)
                /\ shares[i].Data.idx = i
         THEN d.of
         ELSE Garbage

\* ------------------------------------------------- CloudStore capabilities
\* Upload / Delete reach the store unless it is offline; Restore copies the
\* store's shares to a staging folder and returns it, or "" when it fails.
NoStaging == [ok |-> FALSE, files |-> <<>>]
StoreUpload(cloud, offline, cs, share) ==
    IF cs \in offline THEN cloud
    ELSE [cloud EXCEPT ![cs] = Put(@, share.SID, share.Data)]
StoreDelete(cloud, offline, cs, sid) ==
    IF cs \in offline THEN cloud
    ELSE [cloud EXCEPT ![cs] = Remove(@, sid)]
StoreRestore(cloud, offline, cs) ==
    IF cs \in offline THEN NoStaging
    ELSE [ok |-> TRUE, files |-> cloud[cs]]

\* ------------------------------------------------------- trace of a call
\* What one call did, in order: the backend calls it made, the files and
\* directories it wrote, what it printed.
Ev(e, cs, sid, path, idx, data) ==
    [e |-> e, cs |-> cs, sid |-> sid, path |-> path, idx |-> idx, data |-> data]
Note(m, e, path) == [m EXCEPT !.events = Append(@, Ev(e, NoStore, NoSID, path, 0, EmptyBytes))]

\* --------------------------------------------------------------- Save
\* Save writes the preferences to root/.chasm (a write error is ignored)
Save(m) ==
    [m EXCEPT !.disk = WriteFile(@, Join(m.prefs.root, chasmPrefFile), Marshal(m.prefs)),
              !.events = Append(@, Ev("Save", NoStore, NoSID, Join(m.prefs.root, chasmPrefFile), 0, Marshal(m.prefs)))]

\* ----------------------------------------------------------- IsValidPath
\* faulty variant: the scan ends (path valid) at the first malformed pattern
IsValidPathStopsAtBadPattern(m, filePath) ==
    LET base == Base(filePath)
        chasmIgnore == Stat(m.disk, Join(m.prefs.root, chasmIgnoreFile))
        lines == chasmIgnore.data.lines
    IN  IF chasmIgnore.kind # "file" \/ chasmIgnore.fault = "open" THEN TRUE
        ELSE ~ \E i \in 1..Len(lines) :
                 /\ Match(lines[i], base)
                 /\ \A j \in 1..(i - 1) : ~BadPattern(lines[j])

IsValidPath(m, filePath) ==
    LET base == Base(filePath)
        chasmIgnore == Stat(m.disk, Join(m.prefs.root, chasmIgnoreFile))
    IN  IF chasmIgnore.kind # "file" \/ chasmIgnore.fault = "open" THEN TRUE
        ELSE ~ \E i \in 1..Len(chasmIgnore.data.lines) : Match(chasmIgnore.data.lines[i], base)

\* -------------------------------------------------------------- AddFile
\* faulty variant: a new random id on every add
PickSIDAlwaysNew(m, filePath) == RandomShareID(m.nextSID)

\* faulty variant: a new path takes the id of a tracked file of its directory
PickSIDOfSibling(m, filePath) ==
    LET tracked == {q \in DOMAIN m.prefs.FileMap : SplitDir(q) = SplitDir(filePath)} IN
    IF filePath \in DOMAIN m.prefs.FileMap THEN m.prefs.FileMap[filePath].SID
    ELSE IF tracked # {} THEN m.prefs.FileMap[CHOOSE q \in tracked : TRUE].SID
    ELSE RandomShareID(m.nextSID)

\* the share id of the path: the one FileMap holds, else a new random one
PickSID(m, filePath) ==
    IF filePath \in DOMAIN m.prefs.FileMap THEN m.prefs.FileMap[filePath].SID
    ELSE RandomShareID(m.nextSID)

\* faulty variant: the preferences are saved before the first upload
RECURSIVE UploadAllSavesFirst(_, _, _, _, _)
UploadAllSavesFirst(m, filePath, allCloudStores, shares, i) ==
    IF i > Len(allCloudStores) THEN m
    ELSE LET m0 == IF i = 1 THEN Save(m) ELSE m IN
         UploadAllSavesFirst([m0 EXCEPT !.cloud = StoreUpload(@, m.offline, allCloudStores[i], shares[i]),
                                        !.events = Append(@, Ev("Upload", allCloudStores[i], shares[i].SID,
                                                                filePath, shares[i].Data.idx, shares[i].Data.of))],
                             filePath, allCloudStores, shares, i + 1)

\* the upload loop of AddFile: share i goes to store i
RECURSIVE UploadAll(_, _, _, _, _)
UploadAll(m, filePath, allCloudStores, shares, i) ==
    IF i > Len(allCloudStores) THEN m
    ELSE UploadAll([m EXCEPT !.cloud = StoreUpload(@, m.offline, allCloudStores[i], shares[i]),
                             !.events = Append(@, Ev("Upload", allCloudStores[i], shares[i].SID,
                                                     filePath, shares[i].Data.idx, shares[i].Data.of))],
                   filePath, allCloudStores, shares, i + 1)

RECURSIVE AddFile(_, _), AddChildren(_, _, _)
\* faulty variant: the record is written before the file is read
AddFileRecordsFirst(m, filePath) ==
    IF ~IsValidPath(m, filePath) THEN Note(m, "Ignored", filePath)
    ELSE LET fi == Stat(m.disk, filePath) IN
    IF fi.kind = "none" \/ fi.fault = "open" THEN Note(m, "StatError", filePath)
    ELSE IF fi.kind = "dir"
    THEN AddChildren([m EXCEPT !.prefs.DirMap = @ \cup {Clean(filePath)}],
                     filePath, ReadDir(m.disk, filePath))
    ELSE LET has == filePath \in DOMAIN m.prefs.FileMap
             sid == PickSID(m, filePath)
             m1 == IF has THEN m ELSE [m EXCEPT !.nextSID = @ + 1]
             fileBytes == fi.data
             m2 == [m1 EXCEPT !.prefs.FileMap = Put(@, filePath, FileShare(sid, SHA256Base64URL(fileBytes)))]
         IN
         IF fi.fault = "read" THEN Note(m2, "ReadError", filePath)
         ELSE LET allCloudStores == AllCloudStores(m2.prefs)
                  shares == CreateShares(fileBytes, sid, Len(allCloudStores), m.nonce)
                  m3 == [m2 EXCEPT !.events = Append(@, Ev("Split", NoStore, sid, filePath, Len(shares), fileBytes))]
                  m4 == UploadAll(m3, filePath, allCloudStores, shares, 1)
              IN  IF sid # ShareID(chasmPrefFile) THEN Save(m4) ELSE m4

AddFile(m, filePath) ==
    IF ~IsValidPath(m, filePath) THEN Note(m, "Ignored", filePath)
    ELSE LET fi == Stat(m.disk, filePath) IN
    IF fi.kind = "none" \/ fi.fault = "open" THEN Note(m, "StatError", filePath)
    ELSE IF fi.kind = "dir"
    THEN AddChildren([m EXCEPT !.prefs.DirMap = @ \cup {Clean(filePath)}],
                     filePath, ReadDir(m.disk, filePath))
    ELSE LET has == filePath \in DOMAIN m.prefs.FileMap
             sid == PickSID(m, filePath)
             m1 == IF has THEN m ELSE [m EXCEPT !.nextSID = @ + 1]
         IN
         IF fi.fault = "read" THEN Note(m1, "ReadError", filePath)
         ELSE LET fileBytes == fi.data
                  m2 == [m1 EXCEPT !.prefs.FileMap = Put(@, filePath, FileShare(sid, SHA256Base64URL(fileBytes)))]
                  allCloudStores == AllCloudStores(m2.prefs)
                  shares == CreateShares(fileBytes, sid, Len(allCloudStores), m.nonce)
                  m3 == [m2 EXCEPT !.events = Append(@, Ev("Split", NoStore, sid, filePath, Len(shares), fileBytes))]
                  m4 == UploadAll(m3, filePath, allCloudStores, shares, 1)
              IN  IF sid # ShareID(chasmPrefFile) THEN Save(m4) ELSE m4

AddChildren(m, filePath, files) ==
    IF files = <<>> THEN m
    ELSE AddChildren(AddFile(m, Join(filePath, Head(files))), filePath, Tail(files))

\* ------------------------------------------------- DeleteFile, DeleteDir
\* the delete loop of DeleteFile: every store is told to delete the share
RECURSIVE DeleteAll(_, _, _, _, _)
DeleteAll(m, filePath, allCloudStores, sid, i) ==
    IF i > Len(allCloudStores) THEN m
    ELSE DeleteAll([m EXCEPT !.cloud = StoreDelete(@, m.offline, allCloudStores[i], sid),
                             !.events = Append(@, Ev("Delete", allCloudStores[i], sid, filePath, i, EmptyBytes))],
                   filePath, allCloudStores, sid, i + 1)

\* DeleteDir ranges over the keys of FileMap while DeleteFile removes keys: a
\* key removed before it is reached is not visited.  The order of a Go map
\* range is not fixed; the deletions of different keys commute, so one order
\* stands for all of them.
RECURSIVE DeleteFile(_, _), DeleteDir(_, _), DeleteDirLoop(_, _, _)
\* faulty variant: a path that is not tracked is "deleted" all the same
DeleteFileUntracked(m, filePath) ==
    IF ~IsValidPath(m, filePath) THEN Note(m, "Ignored", filePath)
    ELSE LET potenDirPath == Clean(filePath) IN
    IF potenDirPath \in m.prefs.DirMap THEN DeleteDir(m, potenDirPath)
    ELSE LET sid == IF filePath \in DOMAIN m.prefs.FileMap THEN m.prefs.FileMap[filePath].SID ELSE NoSID
             m1 == DeleteAll(m, filePath, AllCloudStores(m.prefs), sid, 1)
             m2 == [m1 EXCEPT !.prefs.FileMap = Remove(@, filePath)]
         IN  Save(m2)

DeleteFile(m, filePath) ==
    IF ~IsValidPath(m, filePath) THEN Note(m, "Ignored", filePath)
    ELSE LET potenDirPath == Clean(filePath) IN
    IF potenDirPath \in m.prefs.DirMap THEN DeleteDir(m, potenDirPath)
    ELSE IF filePath \in DOMAIN m.prefs.FileMap
    THEN LET fileShare == m.prefs.FileMap[filePath]
             m1 == DeleteAll(m, filePath, AllCloudStores(m.prefs), fileShare.SID, 1)
             m2 == [m1 EXCEPT !.prefs.FileMap = Remove(@, filePath)]
         IN  Save(m2)
    ELSE Note(m, "NotTracked", filePath)

\* faulty variant: the DirMap entry is not removed
DeleteDirKeepsMark(m, dirPath) ==
    DeleteDirLoop(m, dirPath, DOMAIN m.prefs.FileMap)

DeleteDir(m, dirPath) ==
    DeleteDirLoop([m EXCEPT !.prefs.DirMap = @ \ {dirPath}], dirPath, DOMAIN m.prefs.FileMap)

DeleteDirLoop(m, dirPath, keys) ==
    IF keys = {} THEN m
    ELSE LET filePath == CHOOSE k \in keys : TRUE
             rest == keys \ {filePath}
         IN  IF filePath \notin DOMAIN m.prefs.FileMap THEN DeleteDirLoop(m, dirPath, rest)
             ELSE IF Clean(SplitDir(filePath)) # Clean(dirPath) THEN DeleteDirLoop(m, dirPath, rest)
             ELSE DeleteDirLoop(DeleteFile(m, filePath), dirPath, rest)

\* -------------------------------------------------------------- Restore
\* restoreShareID: read the share file of sid in every staging folder
FoundShares(sid, sharePaths) ==
    {i \in 1..Len(sharePaths) : sharePaths[i].ok /\ sid \in DOMAIN sharePaths[i].files}

EnoughShares(m, sid, sharePaths) ==
    ~ (Cardinality(FoundShares(sid, sharePaths)) < RegisteredServices(m.prefs))

restoreShareID(m, sid, sharePaths) ==
    IF ~EnoughShares(m, sid, sharePaths) THEN EmptyBytes
    ELSE CombineShares([i \in 1..Len(sharePaths) |-> Share(sid, sharePaths[i].files[sid])])

NoteLookup(m, sid, sharePaths) ==
    LET m1 == [m EXCEPT !.events = Append(@, Ev("Lookup", NoStore, sid, <<>>, 0, EmptyBytes))]
    IN  IF EnoughShares(m, sid, sharePaths) THEN m1
        ELSE [m1 EXCEPT !.events = Append(@, Ev("NotEnoughShares", NoStore, sid, <<>>, 0, EmptyBytes))]

\* faulty variant: the staging loop goes on after a store failed
RECURSIVE StageAllKeepsGoing(_, _, _, _)
StageAllKeepsGoing(m, allCloudStores, sharePaths, i) ==
    IF i > Len(allCloudStores) THEN [m |-> m, sharePaths |-> sharePaths, failed |-> FALSE]
    ELSE LET cs == allCloudStores[i]
             sp == StoreRestore(m.cloud, m.offline, cs)
             m1 == [m EXCEPT !.events = Append(@, Ev("Restore", cs, NoSID, <<>>, i, EmptyBytes))]
         IN  StageAllKeepsGoing(IF sp.ok THEN m1 ELSE Note(m1, "RestoreFailed", <<>>),
                                allCloudStores, Append(sharePaths, sp), i + 1)

\* (1) the staging loop: stops at the first store whose Restore returns ""
RECURSIVE StageAll(_, _, _, _)
StageAll(m, allCloudStores, sharePaths, i) ==
    IF i > Len(allCloudStores) THEN [m |-> m, sharePaths |-> sharePaths, failed |-> FALSE]
    ELSE LET cs == allCloudStores[i]
             sp == StoreRestore(m.cloud, m.offline, cs)
             m1 == [m EXCEPT !.events = Append(@, Ev("Restore", cs, NoSID, <<>>, i, EmptyBytes))]
         IN  IF ~sp.ok
             THEN [m |-> Note(m1, "RestoreFailed", <<>>), sharePaths |-> sharePaths, failed |-> TRUE]
             ELSE StageAll(m1, allCloudStores, Append(sharePaths, sp), i + 1)

\* (3) create the directories of the restored preferences, add them to the live ones
RECURSIVE RestoreDirs(_, _)
RestoreDirs(m, dirs) ==
    IF dirs = {} THEN m
    ELSE LET dirPath == CHOOSE d \in dirs : TRUE IN
         RestoreDirs([m EXCEPT !.disk = MkdirAll(@, dirPath),
                               !.prefs.DirMap = @ \cup {dirPath},
                               !.events = Append(@, Ev("Mkdir", NoStore, NoSID, dirPath, 0, EmptyBytes))],
                     dirs \ {dirPath})

\* faulty variant: the checksum is not compared
RestoreOneUnchecked(m, filePath, fileShare, sharePaths) ==
    LET fileBytes == restoreShareID(m, fileShare.SID, sharePaths)
        m1 == NoteLookup(m, fileShare.SID, sharePaths)
    IN  IF ByteLen(fileBytes) = 0 THEN m1
        ELSE IF ~CanWrite(m1.disk, filePath) THEN Note(m1, "WriteError", filePath)
        ELSE [m1 EXCEPT !.disk = WriteFile(@, filePath, fileBytes),
                        !.events = Append(@, Ev("Write", NoStore, fileShare.SID, filePath, 0, fileBytes))]

\* (4) one file of the restored preferences
RestoreOne(m, filePath, fileShare, sharePaths) ==
    LET fileBytes == restoreShareID(m, fileShare.SID, sharePaths)
        m1 == NoteLookup(m, fileShare.SID, sharePaths)
    IN  IF ByteLen(fileBytes) = 0 THEN m1
        ELSE IF fileShare.SID # ShareID(chasmPrefFile) /\ checkSHA2(fileShare.Hash, fileBytes) = FALSE
        THEN Note(m1, "BadChecksum", filePath)
        ELSE IF ~CanWrite(m1.disk, filePath) THEN Note(m1, "WriteError", filePath)
        ELSE [m1 EXCEPT !.disk = WriteFile(@, filePath, fileBytes),
                        !.events = Append(@, Ev("Write", NoStore, fileShare.SID, filePath, 0, fileBytes))]

\* the files are written to different paths: the order of the range is immaterial
RECURSIVE RestoreFiles(_, _, _, _)
RestoreFiles(m, fileMap, keys, sharePaths) ==
    IF keys = {} THEN m
    ELSE LET filePath == CHOOSE k \in keys : TRUE IN
         RestoreFiles(RestoreOne(m, filePath, fileMap[filePath], sharePaths),
                      fileMap, keys \ {filePath}, sharePaths)

Restore(m) ==
    LET staged == StageAll(m, AllCloudStores(m.prefs), <<>>, 1) IN
    IF staged.failed THEN staged.m
    ELSE LET sharePaths == staged.sharePaths
             chasmFileBytes == restoreShareID(staged.m, ShareID(chasmPrefFile), sharePaths)
             m1 == NoteLookup(staged.m, ShareID(chasmPrefFile), sharePaths)
         IN  IF ~UnmarshalOk(chasmFileBytes) THEN Note(m1, "CannotRestorePrefs", <<>>)
             ELSE LET restoredPrefs == Unmarshal(chasmFileBytes)
                      m2 == [m1 EXCEPT !.events = Append(@, Ev("Manifest", NoStore, NoSID, <<>>, 0, chasmFileBytes))]
                      m3 == RestoreDirs(m2, restoredPrefs.DirMap)
                      m4 == RestoreFiles(m3, restoredPrefs.FileMap, DOMAIN restoredPrefs.FileMap, sharePaths)
                  IN  Note(m4, "Done", <<>>)

\* ------------------------------------------------- CreateOrLoadChasmDir
\* a new process on the root: loads root/.chasm, or starts new preferences;
\* writes the default ignore file when there is none
ZeroPrefs(folderStores, gdriveStores) ==
    [root |-> <<>>, FolderStores |-> folderStores, GDriveStores |-> gdriveStores,
     FileMap |-> <<>>, DirMap |-> {}]

CreateOrLoadChasmDir(m, root) ==
    LET d0 == MkdirAll(m.disk, root)
        chasmPath == Join(root, chasmPrefFile)
        chasmFile == Stat(d0, chasmPath)
        p1 == IF chasmFile.kind # "file" \/ chasmFile.fault # "none"
              THEN [m.prefs EXCEPT !.DirMap = {},
                                   !.FileMap = Put(<<>>, chasmPath, FileShare(ShareID(chasmPrefFile), EmptyHash))]
              ELSE IF UnmarshalOk(chasmFile.data)
              THEN [Unmarshal(chasmFile.data) EXCEPT !.root = m.prefs.root]
              ELSE m.prefs
        ignorePath == Join(root, chasmIgnoreFile)
        ignoreFile == Stat(d0, ignorePath)
        noIgnore == ignoreFile.kind # "file" \/ ignoreFile.fault # "none"
        p2 == IF noIgnore
              THEN [p1 EXCEPT !.FileMap = Put(@, ignorePath, FileShare(ShareID(chasmIgnoreFile), SHA256Base64URL(defaultIgnore)))]
              ELSE p1
        d1 == IF noIgnore THEN WriteFile(d0, ignorePath, defaultIgnore) ELSE d0
    IN  Save([m EXCEPT !.disk = d1, !.prefs = [p2 EXCEPT !.root = root]])

\* ---------------------------------------------------------------- state
VARIABLES
    preferences,   \* the process-wide ChasmPref
    disk,          \* the local file system under the root
    cloud,         \* per store: share id -> share bytes held by the store
    offline,       \* stores that fail during the next call
    nextSID,       \* how many random share ids were handed out
    calls,         \* calls made so far
    envs,          \* environment steps made so far
    lastCall,      \* the last step: operation and argument
    before,        \* preferences when the last step began
    events         \* trace of the last call

vars == <<preferences, disk, cloud, offline, nextSID, calls, envs, lastCall, before, events>>

Machine ==
    [prefs |-> preferences, disk |-> disk, cloud |-> cloud, nextSID |-> nextSID,
     events |-> <<>>, offline |-> offline, nonce |-> calls + 1]

Call(op, path) == [op |-> op, path |-> path]

Commit(m, op, path) ==
    /\ preferences' = m.prefs
    /\ disk' = m.disk
    /\ cloud' = m.cloud
    /\ nextSID' = m.nextSID
    /\ events' = m.events
    /\ offline' = {}
    /\ calls' = calls + 1
    /\ lastCall' = Call(op, path)
    /\ before' = preferences
    /\ UNCHANGED envs

EnvStep(what, path) ==
    /\ envs < MaxEnv
    /\ envs' = envs + 1
    /\ lastCall' = Call(what, path)
    /\ before' = preferences
    /\ events' = <<>>
    /\ UNCHANGED <<preferences, nextSID, calls>>

\* the user tree found under the root
UserTree ==
    [p \in AllPaths |->
        IF p \in {Root, DirD, DirS} THEN Directory
        ELSE IF p = FileA THEN RegularFile(Text(<<LineX>>))
        ELSE IF p = FileJunk THEN RegularFile(Text(<<LineX>>))
        ELSE IF p = FileC THEN RegularFile(Text(<<LineY>>))
        ELSE IF p = FileE THEN RegularFile(EmptyBytes)
        ELSE NoFile]

StoreLists(kind, max) == {[i \in 1..n |-> [kind |-> kind, n |-> i]] : n \in 0..max}

\* CreateOrLoadChasmDir(root) on a root without .chasm, with the stores that
\* setup registered
Init ==
    \E fs \in StoreLists("folder", MaxFolderStores), gs \in StoreLists("gdrive", MaxGDriveStores) :
        LET m == CreateOrLoadChasmDir(
                    [prefs |-> ZeroPrefs(fs, gs), disk |-> UserTree,
                     cloud |-> [cs \in AllStores |-> <<>>], nextSID |-> 1,
                     events |-> <<>>, offline |-> {}, nonce |-> 0], Root)
        IN  /\ preferences = m.prefs
            /\ disk = m.disk
            /\ cloud = m.cloud
            /\ offline = {}
            /\ nextSID = 1
            /\ calls = 0
            /\ envs = 0
            /\ lastCall = Call("CreateOrLoadChasmDir", Root)
            /\ before = m.prefs
            /\ events = m.events

\* ------------------------------------------------------ a second process
\* A first process on the user tree adds a directory and then root/.chasm,
\* so that the stores hold the shares of the files and of the manifest
\* naming them.
FirstProcess(fs, gs, dir) ==
    LET m0 == CreateOrLoadChasmDir(
                  [prefs |-> ZeroPrefs(fs, gs), disk |-> UserTree,
                   cloud |-> [cs \in AllStores |-> <<>>], nextSID |-> 1,
                   events |-> <<>>, offline |-> {}, nonce |-> 0], Root)
        m1 == AddFile([m0 EXCEPT !.events = <<>>, !.nonce = -2], dir)
        m2 == AddFile([m1 EXCEPT !.events = <<>>, !.nonce = -1], chasmFilePath)
    IN  m2

\* a root in which nothing exists yet
EmptyTree == [p \in AllPaths |-> NoFile]

\* CreateOrLoadChasmDir(root) of a new process on an empty root, with the
\* same stores registered, after the first process has ended
FreshInit ==
    \E fs \in StoreLists("folder", MaxFolderStores), gs \in StoreLists("gdrive", MaxGDriveStores) :
      \E dir \in {Root, DirD} :
        LET old == FirstProcess(fs, gs, dir)
            m == CreateOrLoadChasmDir(
                    [prefs |-> ZeroPrefs(fs, gs), disk |-> EmptyTree,
                     cloud |-> old.cloud, nextSID |-> old.nextSID,
                     events |-> <<>>, offline |-> {}, nonce |-> 0], Root)
        IN  /\ preferences = m.prefs
            /\ disk = m.disk
            /\ cloud = m.cloud
            /\ offline = {}
            /\ nextSID = m.nextSID
            /\ calls = 0
            /\ envs = 0
            /\ lastCall = Call("CreateOrLoadChasmDir", Root)
            /\ before = m.prefs
            /\ events = m.events

\* -------------------------------------------------------------- actions
AddPaths == {Root, chasmFilePath, DirD, DirDDot, DirS, FileA, FileJunk}
DeletePaths == {Root, chasmFilePath, DirD, DirS, FileA, FileC}

DoAddFile ==
    /\ calls < MaxCalls
    /\ \E filePath \in AddPaths : Commit(AddFile(Machine, filePath), "AddFile", filePath)

DoDeleteFile ==
    /\ calls < MaxCalls
    /\ \E filePath \in DeletePaths : Commit(DeleteFile(Machine, filePath), "DeleteFile", filePath)

DoRestore ==
    /\ calls < MaxCalls
    /\ Commit(Restore(Machine), "Restore", <<>>)

\* the user rewrites a file of the tree
UserWrite ==
    \E p \in UserFiles, c \in UserContents :
        /\ disk[p].kind = "file"
        /\ disk[p].data # c
        /\ disk' = [disk EXCEPT ![p].data = c]
        /\ EnvStep("UserWrite", p)
        /\ UNCHANGED <<cloud, offline>>

\* the user rewrites the ignore file
EditIgnore ==
    \E c \in IgnoreContents :
        /\ disk[chasmIgnorePath].data # c
        /\ disk' = [disk EXCEPT ![chasmIgnorePath] = RegularFile(c)]
        /\ EnvStep("EditIgnore", chasmIgnorePath)
        /\ UNCHANGED <<cloud, offline>>

\* a file of the tree becomes unreadable: it cannot be opened, or it opens
\* and the read fails
Fault ==
    \E p \in {FileA, FileC}, f \in {"open", "read"} :
        /\ disk[p].kind = "file"
        /\ disk[p].fault = "none"
        /\ disk' = [disk EXCEPT ![p].fault = f]
        /\ EnvStep("Fault", p)
        /\ UNCHANGED <<cloud, offline>>

\* the user replaces a directory of the tree by a regular file (what was
\* below it is gone), or a regular file by an empty directory
RetypePaths == {DirS, FileA}

Retype ==
    \E p \in RetypePaths :
        /\ disk[p].kind # "none"
        /\ disk' = [q \in DOMAIN disk |->
                        IF q = p THEN (IF disk[p].kind = "dir" THEN RegularFile(Text(<<LineX>>)) ELSE Directory)
                        ELSE IF Len(p) < Len(q) /\ SubSeq(q, 1, Len(p)) = p THEN NoFile
                        ELSE disk[q]]
        /\ EnvStep("Retype", p)
        /\ UNCHANGED <<cloud, offline>>

\* a share held by a store is altered
Tamper ==
    \E cs \in AllStores : \E sid \in DOMAIN cloud[cs] :
        /\ cloud[cs][sid].ok
        /\ cloud' = [cloud EXCEPT ![cs][sid].ok = FALSE]
        /\ EnvStep("Tamper", <<>>)
        /\ UNCHANGED <<disk, offline>>

\* a share held by a store is lost
LoseShare ==
    \E cs \in AllStores : \E sid \in DOMAIN cloud[cs] :
        /\ cloud' = [cloud EXCEPT ![cs] = Remove(@, sid)]
        /\ EnvStep("LoseShare", <<>>)
        /\ UNCHANGED <<disk, offline>>

\* a registered store is unreachable during the next call
GoOffline ==
    \E cs \in AllStores :
        /\ \E i \in 1..Len(AllCloudStores(preferences)) : AllCloudStores(preferences)[i] = cs
        /\ offline = {}
        /\ offline' = {cs}
        /\ EnvStep("GoOffline", <<>>)
        /\ UNCHANGED <<disk, cloud>>

Next ==
    \/ DoAddFile
    \/ DoDeleteFile
    \/ DoRestore
    \/ UserWrite
    \/ EditIgnore
    \/ Fault
    \/ Retype
    \/ Tamper
    \/ LoseShare
    \/ GoOffline

Spec == Init /\ [][Next]_vars

\* the calls of a new process on an empty root
FreshSpec == FreshInit /\ [][Next]_vars

\* =================================================================
\* Properties
\* =================================================================
Registered == {AllCloudStores(preferences)[i] : i \in 1..Len(AllCloudStores(preferences))}
IsCall(op) == lastCall.op = op
HasEvent(evs, e) == \E i \in 1..Len(evs) : evs[i].e = e
HasEventAt(evs, e, path) == \E i \in 1..Len(evs) : evs[i].e = e /\ evs[i].path = path
NoEventOf(evs, kinds) == \A i \in 1..Len(evs) : evs[i].e \notin kinds

\* the step is a call of op (the primed state is the state the call returns in)
StepIs(op) == calls' = calls + 1 /\ lastCall'.op = op

\* the preferences the last Restore reconstructed from the stores
Manifest(evs) ==
    LET i == CHOOSE i \in 1..Len(evs) : evs[i].e = "Manifest" IN Unmarshal(evs[i].data)

\* ----------------------------------------------------------------- C1
\* C1 (round trip): when AddFile(F) of a readable, non-ignored regular user
\* file has just returned, no store ever failed, lost or altered a share, and
\* Restore is the very next step, then Restore writes to F the bytes F had
\* when it was added, and the fingerprint recorded for F is the fingerprint
\* of the bytes written.
C1_RoundTrip ==
    [][ \A F \in UserFiles :
          ( /\ lastCall = Call("AddFile", F)
            /\ ~NeedSetup(preferences)
            /\ envs = 0
            /\ HasEventAt(events, "Save", chasmFilePath)
            /\ F \in DOMAIN preferences.FileMap
            /\ StepIs("Restore") )
          => \E i \in 1..Len(events') :
                /\ events'[i].e = "Write"
                /\ events'[i].path = F
                /\ events'[i].data = disk[F].data
                /\ preferences.FileMap[F].Hash = SHA256Base64URL(events'[i].data)
      ]_vars

\* ----------------------------------------------------------------- C2
\* C2 (integrity enforcement): whatever a Restore writes to a path other than
\* the metadata path has the fingerprint that the reconstructed manifest
\* stores for that path; bytes with another fingerprint are never written.
C2_IntegrityEnforced ==
    IsCall("Restore") =>
        \A i \in 1..Len(events) :
            (events[i].e = "Write" /\ events[i].path # chasmFilePath) =>
                /\ HasEvent(events, "Manifest")
                /\ events[i].path \in DOMAIN Manifest(events).FileMap
                /\ SHA256Base64URL(events[i].data) = Manifest(events).FileMap[events[i].path].Hash
                /\ disk[events[i].path].data = events[i].data

\* a Restore met a file whose combined bytes did not have the stored
\* fingerprint, and wrote nothing to it
C2_Witness ==
    /\ IsCall("Restore")
    /\ \E i \in 1..Len(events) :
          /\ events[i].e = "BadChecksum"
          /\ events[i].path \in UserFiles
          /\ ~HasEventAt(events, "Write", events[i].path)
          /\ disk[events[i].path].data # Garbage

\* ----------------------------------------------------------------- C3
\* C3 (staging failure): a Restore during which a registered store fails to
\* stage leaves the preferences and the disk as they were, looks up no
\* share, reconstructs no manifest, creates no directory and writes no file,
\* whatever the position of the failing store.
C3_StagingFailureAborts ==
    [][ (StepIs("Restore") /\ offline \cap Registered # {})
          => /\ preferences' = preferences
             /\ disk' = disk
             /\ HasEvent(events', "RestoreFailed")
             /\ NoEventOf(events', {"Lookup", "Manifest", "Mkdir", "Write", "Done"})
      ]_vars

\* the second store of the enumeration failed to stage after the first had
\* staged, while the stores hold a manifest that names directories
C3_Witness ==
    /\ IsCall("Restore")
    /\ HasEvent(events, "RestoreFailed")
    /\ \E i \in 1..Len(events) : events[i].e = "Restore" /\ events[i].idx = 2
    /\ \A cs \in Registered :
          /\ ShareID(chasmPrefFile) \in DOMAIN cloud[cs]
          /\ cloud[cs][ShareID(chasmPrefFile)].of.prefs.DirMap # {}

\* ----------------------------------------------------------------- C4
\* C4 (missing metadata share): a Restore in which every registered store
\* stages but some staging folder has no share of the metadata identifier
\* fails as a whole: it reports that the preferences cannot be restored,
\* creates no directory, writes no file and leaves preferences and disk as
\* they were.
C4_MissingMetadataAborts ==
    [][ ( /\ StepIs("Restore")
          /\ offline \cap Registered = {}
          /\ \E cs \in Registered : ShareID(chasmPrefFile) \notin DOMAIN cloud[cs] )
          => /\ preferences' = preferences
             /\ disk' = disk
             /\ HasEvent(events', "CannotRestorePrefs")
             /\ NoEventOf(events', {"Manifest", "Mkdir", "Write", "Done"})
      ]_vars

\* a Restore failed on the metadata share while one store still holds it and
\* another has lost it
C4_Witness ==
    /\ IsCall("Restore")
    /\ HasEvent(events, "CannotRestorePrefs")
    /\ \E cs1 \in Registered, cs2 \in Registered :
          /\ ShareID(chasmPrefFile) \in DOMAIN cloud[cs1]
          /\ ShareID(chasmPrefFile) \notin DOMAIN cloud[cs2]

\* ----------------------------------------------------------------- C5
\* C5 (per-file degradation): a Restore that reconstructs the manifest while
\* exactly one registered store lacks the share of exactly one file of the
\* manifest (every other share is held) runs to the end, writes nothing to
\* that file, and writes every other user file of the manifest with bytes
\* that have its stored fingerprint.
MissingShares(man) ==
    {x \in Registered \X DOMAIN man.FileMap : man.FileMap[x[2]].SID \notin DOMAIN cloud[x[1]]}

C5_PerFileDegradation ==
    [][ ( /\ StepIs("Restore")
          /\ ~NeedSetup(preferences)
          /\ HasEvent(events', "Manifest")
          /\ Cardinality(MissingShares(Manifest(events'))) = 1 )
          => LET man == Manifest(events')
                 lost == (CHOOSE x \in MissingShares(man) : TRUE)[2]
             IN  /\ HasEvent(events', "Done")
                 /\ ~HasEventAt(events', "Write", lost)
                 /\ \A q \in DOMAIN man.FileMap \ {lost, chasmFilePath} :
                       \E i \in 1..Len(events') :
                          /\ events'[i].e = "Write"
                          /\ events'[i].path = q
                          /\ checkSHA2(man.FileMap[q].Hash, events'[i].data)
      ]_vars

\* ----------------------------------------------------------------- C6
\* C6 (idempotent identifiers): an AddFile call, on whatever path, leaves
\* every path that was in FileMap when it began in FileMap with the share id
\* it had; only the fingerprint may differ.
C6_IdentifierKept ==
    IsCall("AddFile") =>
        \A p \in DOMAIN before.FileMap :
            /\ p \in DOMAIN preferences.FileMap
            /\ preferences.FileMap[p].SID = before.FileMap[p].SID

\* a tracked user file was rewritten and added again: same id, new fingerprint
C6_Witness ==
    /\ IsCall("AddFile")
    /\ \E p \in UserFiles \cap DOMAIN before.FileMap :
          /\ HasEventAt(events, "Upload", p)
          /\ preferences.FileMap[p].SID = before.FileMap[p].SID
          /\ preferences.FileMap[p].Hash # before.FileMap[p].Hash

\* ----------------------------------------------------------------- C7
\* C7 (positional stability): in an AddFile, every split of a file asks for
\* as many shares as stores are registered, and is followed by exactly one
\* upload per store: the i-th upload carries share i and goes to the i-th
\* store of the enumeration "folder stores in configuration order, then
\* drive stores in configuration order"; there is no other upload.
Enumeration(i) ==
    IF i <= Len(preferences.FolderStores) THEN preferences.FolderStores[i]
    ELSE preferences.GDriveStores[i - Len(preferences.FolderStores)]

StoreCount == Len(preferences.FolderStores) + Len(preferences.GDriveStores)

C7_PositionalStability ==
    IsCall("AddFile") =>
        /\ \A j \in 1..Len(events) :
              events[j].e = "Split" =>
                 /\ events[j].idx = StoreCount
                 /\ j + StoreCount <= Len(events)
                 /\ \A i \in 1..StoreCount :
                       /\ events[j + i].e = "Upload"
                       /\ events[j + i].sid = events[j].sid
                       /\ events[j + i].path = events[j].path
                       /\ events[j + i].idx = i
                       /\ events[j + i].cs = Enumeration(i)
        /\ \A j \in 1..Len(events) :
              events[j].e = "Upload" =>
                 /\ j - events[j].idx >= 1
                 /\ events[j - events[j].idx].e = "Split"
                 /\ events[j - events[j].idx].sid = events[j].sid

\* an add with a folder store and a drive store: share 2 went to the drive store
C7_Witness ==
    /\ IsCall("AddFile")
    /\ Len(preferences.FolderStores) >= 1
    /\ Len(preferences.GDriveStores) >= 1
    /\ \E j \in 1..Len(events) :
          /\ events[j].e = "Upload"
          /\ events[j].idx = Len(preferences.FolderStores) + 1
          /\ events[j].cs = preferences.GDriveStores[1]

\* ----------------------------------------------------------------- C8
\* C8 (setup gate): a call of AddFile, DeleteFile or Restore made while fewer
\* than 2 stores are registered splits nothing, calls no store and leaves
\* FileMap and DirMap as they were.
C8_SetupGate ==
    (NeedSetup(before) /\ lastCall.op \in {"AddFile", "DeleteFile", "Restore"}) =>
        /\ preferences.FileMap = before.FileMap
        /\ preferences.DirMap = before.DirMap
        /\ NoEventOf(events, {"Split", "Upload", "Delete", "Restore"})

\* ----------------------------------------------------------------- C9
\* C9 (ignore enforcement): while a line of the ignore file matches the base
\* name of a path, an AddFile called on that path, or on a directory above it
\* that reaches it as a child, neither adds the path to FileMap or DirMap nor
\* changes its record, and uploads no share for it.
IgnoredName(d, p) ==
    /\ d[chasmIgnorePath].kind = "file"
    /\ \E i \in 1..Len(d[chasmIgnorePath].data.lines) : Match(d[chasmIgnorePath].data.lines[i], Base(p))

IsAbove(q, p) ==
    LET c == Clean(q) IN Len(c) < Len(p) /\ SubSeq(p, 1, Len(c)) = c

Entries(d, dir) == {Join(dir, SortedNames(dir)[i]) : i \in 1..Len(SortedNames(dir))}

PlainDirectory(d, dir) ==
    /\ dir \in AllPaths
    /\ d[dir].kind = "dir"
    /\ ~IgnoredName(d, dir)
    /\ \E p \in Entries(d, dir) : d[p].kind # "none"
    /\ \A p \in Entries(d, dir) :
          d[p].kind # "none" => (d[p].kind = "file" /\ d[p].fault = "none" /\ ~IgnoredName(d, p))

Present(d, dir) == {p \in Entries(d, dir) : d[p].kind = "file"}

DeleteCalls(evs, cs, sid) ==
    Cardinality({i \in 1..Len(evs) : evs[i].e = "Delete" /\ evs[i].cs = cs /\ evs[i].sid = sid})

C10_DirectoryAddDelete ==
    [][ \A dir \in AllPaths :
          /\ (StepIs("AddFile") /\ lastCall'.path = dir /\ PlainDirectory(disk, dir)) =>
                /\ dir \in preferences'.DirMap
                /\ Present(disk, dir) \subseteq DOMAIN preferences'.FileMap
                /\ \A p \in Present(disk, dir), q \in Present(disk, dir) :
                      p # q => preferences'.FileMap[p].SID # preferences'.FileMap[q].SID
          /\ ( /\ lastCall = Call("AddFile", dir)
               /\ PlainDirectory(disk, dir)
               /\ StepIs("DeleteFile")
               /\ lastCall'.path = dir ) =>
                /\ dir \notin preferences'.DirMap
                /\ Present(disk, dir) \cap DOMAIN preferences'.FileMap = {}
                /\ \A p \in Present(disk, dir), cs \in Registered :
                      DeleteCalls(events', cs, preferences.FileMap[p].SID) = 1
      ]_vars

\* DeleteFile of the directory S right after its add: both entries were
\* tracked, with two stores registered
C10_Witness ==
    /\ lastCall = Call("DeleteFile", DirS)
    /\ DirS \in before.DirMap
    /\ {FileC, FileE} \subseteq DOMAIN before.FileMap
    /\ before.FileMap[FileC].SID # before.FileMap[FileE].SID
    /\ DirS \notin preferences.DirMap
    /\ Cardinality(Registered) = 2
    /\ \A cs \in Registered : DeleteCalls(events, cs, before.FileMap[FileC].SID) = 1

\* ---------------------------------------------------------------- C11
\* C11 (directory deletion is complete for all depths): a DeleteFile of a
\* tracked directory D that no ignore line matches leaves no path below D,
\* at whatever depth, in FileMap or in DirMap, and tells every registered
\* store to delete the share id of every file that was tracked below D.
C11_DeleteAllDepths ==
    [][ \A D \in AllPaths :
          ( /\ StepIs("DeleteFile")
            /\ lastCall'.path = D
            /\ D \in preferences.DirMap
            /\ ~IgnoredName(disk, D) )
          => /\ \A p \in DOMAIN preferences'.FileMap \cup preferences'.DirMap : ~IsAbove(D, p)
             /\ \A p \in DOMAIN preferences.FileMap, cs \in Registered :
                   IsAbove(D, p) => DeleteCalls(events', cs, preferences.FileMap[p].SID) >= 1
      ]_vars

\* ---------------------------------------------------------------- C12
\* C12 (persist after every mutation): when an AddFile or DeleteFile call on
\* a path other than the metadata path has returned with FileMap or DirMap
\* changed, root/.chasm holds the marshalled preferences of the process.
Persisted(d, p) ==
    /\ d[chasmFilePath].kind = "file"
    /\ d[chasmFilePath].data = Marshal(p)

C12_PersistAfterMutation ==
    ( /\ lastCall.op \in {"AddFile", "DeleteFile"}
      /\ lastCall.path # chasmFilePath
      /\ \/ preferences.FileMap # before.FileMap
         \/ preferences.DirMap # before.DirMap )
    => Persisted(disk, preferences)

\* ---------------------------------------------------------------- C13
\* C13 (the metadata path is always tracked): in every state that root
\* initialisation followed by AddFile, DeleteFile and Restore calls reaches,
\* FileMap holds root/.chasm with the reserved id ".chasm", and the last call
\* told no store to delete the share of the reserved id.
C13_MetadataTracked ==
    /\ chasmFilePath \in DOMAIN preferences.FileMap
    /\ preferences.FileMap[chasmFilePath].SID = ShareID(chasmPrefFile)
    /\ \A i \in 1..Len(events) :
          events[i].e = "Delete" => events[i].sid # ShareID(chasmPrefFile)

\* ---------------------------------------------------------------- C14
\* C14 (sentinel fingerprint of the metadata record): in every reachable
\* state the record FileMap holds for root/.chasm carries the empty
\* fingerprint, also after an AddFile of root/.chasm.
C14_SentinelFingerprint ==
    chasmFilePath \in DOMAIN preferences.FileMap =>
        preferences.FileMap[chasmFilePath].Hash = EmptyHash

\* ---------------------------------------------------------------- C15
\* C15 (delete of an untracked path is a no-op): a DeleteFile of a path that
\* no ignore line matches and that is neither in DirMap (cleaned) nor in
\* FileMap leaves the preferences, the disk (root/.chasm with it) and the
\* stores as they were, tells no store to delete anything and saves nothing.
C15_DeleteUntrackedNoOp ==
    [][ \A p \in DeletePaths :
          ( /\ StepIs("DeleteFile")
            /\ lastCall'.path = p
            /\ ~IgnoredName(disk, p)
            /\ Clean(p) \notin preferences.DirMap
            /\ p \notin DOMAIN preferences.FileMap )
          => /\ preferences' = preferences
             /\ disk' = disk
             /\ cloud' = cloud
             /\ HasEventAt(events', "NotTracked", p)
             /\ NoEventOf(events', {"Delete", "Save"})
      ]_vars

\* a DeleteFile of a path that is not tracked returned, while stores are
\* registered, user files are tracked and root/.chasm differs from the
\* preferences of the process
C15_Witness ==
    /\ IsCall("DeleteFile")
    /\ HasEventAt(events, "NotTracked", lastCall.path)
    /\ lastCall.path \notin DOMAIN preferences.FileMap
    /\ Registered # {}
    /\ \E p \in UserFiles : p \in DOMAIN preferences.FileMap
    /\ ~Persisted(disk, preferences)

\* ---------------------------------------------------------------- C16
\* C16 (add aborts cleanly on a read failure): while a regular file p cannot
\* be read (it does not open, or the read fails), an AddFile call
\*   - leaves the record of p in FileMap as it was, puts no record of p into
\*     root/.chasm that was not there or in FileMap before, and splits and
\*     uploads nothing for p;
\*   - when called on p itself, leaves preferences, disk and stores as they
\*     were and saves nothing;
\*   - when it reaches p as a child of a directory, still adds every readable,
\*     non-ignored regular file of the same directory.
RecordOf(fileMap, p) == IF p \in DOMAIN fileMap THEN {fileMap[p]} ELSE {}
PersistedFileMap(d) == d[chasmFilePath].data.prefs.FileMap

Unreadable(d, p) == d[p].kind = "file" /\ d[p].fault # "none"

Siblings(d, p) ==
    {q \in UserFiles \ {p} :
        /\ SplitDir(q) = SplitDir(p)
        /\ d[q].kind = "file"
        /\ d[q].fault = "none"
        /\ ~IgnoredName(d, q)}

C16_ReadFailureAborts ==
    [][ \A p \in UserFiles :
          (StepIs("AddFile") /\ Unreadable(disk, p)) =>
             /\ RecordOf(preferences'.FileMap, p) = RecordOf(preferences.FileMap, p)
             /\ RecordOf(PersistedFileMap(disk'), p)
                   \subseteq RecordOf(PersistedFileMap(disk), p) \cup RecordOf(preferences.FileMap, p)
             /\ ~HasEventAt(events', "Split", p)
             /\ ~HasEventAt(events', "Upload", p)
             /\ lastCall'.path = p =>
                   /\ preferences' = preferences
                   /\ disk' = disk
                   /\ cloud' = cloud
                   /\ NoEventOf(events', {"Split", "Upload", "Save"})
             /\ ( /\ lastCall'.path # p
                  /\ HasEventAt(events', "ReadError", p) \/ HasEventAt(events', "StatError", p) ) =>
                   \A q \in Siblings(disk, p) :
                      /\ q \in DOMAIN preferences'.FileMap
                      /\ preferences'.FileMap[q].Hash = SHA256Base64URL(disk[q].data)
                      /\ HasEventAt(events', "Split", q)
      ]_vars

\* a recursive add met root/D/S/c, whose read failed, left it untracked and
\* added its sibling root/D/S/e, which comes after it in the directory
C16_Witness ==
    /\ IsCall("AddFile")
    /\ lastCall.path # FileC
    /\ disk[FileC].fault = "read"
    /\ HasEventAt(events, "ReadError", FileC)
    /\ FileC \notin DOMAIN preferences.FileMap
    /\ FileE \in DOMAIN preferences.FileMap
    /\ FileE \notin DOMAIN before.FileMap
    /\ HasEventAt(events, "Upload", FileE)

\* ---------------------------------------------------------------- C17
\* C17 (persistence follows the backend calls): in an AddFile, every save of
\* the preferences comes right after the upload calls, one to every
\* registered store, of the file that was just split, and the saved
\* preferences name that file with the uploaded id; in a DeleteFile, every
\* save comes right after the delete calls, one to every registered store,
\* for the id of one file, and the saved preferences no longer name that
\* file.  No save stands between the backend calls of one file.
SavedAfterUploads(evs, k) ==
    LET j == k - StoreCount - 1 IN
    /\ j >= 1
    /\ evs[j].e = "Split"
    /\ \A i \in 1..StoreCount :
          /\ evs[j + i].e = "Upload"
          /\ evs[j + i].cs = Enumeration(i)
          /\ evs[j + i].sid = evs[j].sid
          /\ evs[j + i].path = evs[j].path
    /\ evs[j].path \in DOMAIN evs[k].data.prefs.FileMap
    /\ evs[k].data.prefs.FileMap[evs[j].path].SID = evs[j].sid

SavedAfterDeletes(evs, k) ==
    /\ k - StoreCount >= 1
    /\ \A i \in 1..StoreCount :
          /\ evs[k - StoreCount - 1 + i].e = "Delete"
          /\ evs[k - StoreCount - 1 + i].cs = Enumeration(i)
          /\ evs[k - StoreCount - 1 + i].sid = evs[k - 1].sid
          /\ evs[k - StoreCount - 1 + i].path = evs[k - 1].path
    /\ StoreCount > 0 =>
          /\ evs[k - 1].path \in DOMAIN before.FileMap
          /\ before.FileMap[evs[k - 1].path].SID = evs[k - 1].sid
          /\ evs[k - 1].path \notin DOMAIN evs[k].data.prefs.FileMap

C17_PersistAfterBackendCalls ==
    /\ IsCall("AddFile") =>
          \A k \in 1..Len(events) : events[k].e = "Save" => SavedAfterUploads(events, k)
    /\ IsCall("DeleteFile") =>
          \A k \in 1..Len(events) : events[k].e = "Save" => SavedAfterDeletes(events, k)

\* a DeleteFile of a tracked user file told both registered stores to delete
\* its share and then saved preferences without the file
C17_Witness ==
    /\ IsCall("DeleteFile")
    /\ StoreCount = 2
    /\ \E k \in 3..Len(events) :
          /\ events[k].e = "Save"
          /\ events[k - 1].e = "Delete"
          /\ events[k - 2].e = "Delete"
          /\ events[k - 1].path \in UserFiles
          /\ events[k - 1].path \notin DOMAIN disk[chasmFilePath].data.prefs.FileMap

\* ---------------------------------------------------------------- C18
\* C18 (identifier stability across a restore): when the Restore of a process
\* started on an empty root has written a user file p from a manifest that
\* records the id s for p, the preferences of the process hold p with the id
\* s, and an AddFile of p (readable, not ignored) as the next call splits p
\* under s and saves preferences that hold p with s.
RestoredWith(evs, p) == {evs[i].sid : i \in {j \in 1..Len(evs) : evs[j].e = "Write" /\ evs[j].path = p}}

C18_RestoredIsTracked ==
    [][ \A p \in UserFiles :
          (IsCall("Restore") /\ RestoredWith(events, p) # {}) =>
             /\ RecordOf(preferences.FileMap, p) # {}
             /\ \A r \in RecordOf(preferences.FileMap, p) : r.SID \in RestoredWith(events, p)
             /\ ( /\ StepIs("AddFile")
                  /\ lastCall'.path = p
                  /\ ~IgnoredName(disk, p)
                  /\ disk[p].kind = "file"
                  /\ disk[p].fault = "none" ) =>
                   /\ \E i \in 1..Len(events') :
                         /\ events'[i].e = "Split"
                         /\ events'[i].path = p
                         /\ events'[i].sid \in RestoredWith(events, p)
                   /\ \A r \in RecordOf(PersistedFileMap(disk'), p) : r.SID \in RestoredWith(events, p)
      ]_vars

\* ---------------------------------------------------------------- C19
\* C19 (identifiers are unique per path): in every reachable state no two
\* different paths of FileMap have the same share id, and only root/.chasm
\* and root/.chasmignore carry the reserved ids ".chasm" and ".chasmignore"
\* (RandomShareID returning an id it has not returned before).
ReservedSIDs == {ShareID(chasmPrefFile), ShareID(chasmIgnoreFile)}

C19_UniqueIdentifiers ==
    /\ \A p \in DOMAIN preferences.FileMap, q \in DOMAIN preferences.FileMap :
          p # q => preferences.FileMap[p].SID # preferences.FileMap[q].SID
    /\ \A p \in DOMAIN preferences.FileMap \ {chasmFilePath, chasmIgnorePath} :
          preferences.FileMap[p].SID \notin ReservedSIDs

\* three user files are tracked next to the two reserved paths, one of them
\* added again after it had been deleted
C19_Witness ==
    /\ lastCall = Call("AddFile", FileA)
    /\ FileA \notin DOMAIN before.FileMap
    /\ {chasmFilePath, chasmIgnorePath, FileA, FileC, FileE} \subseteq DOMAIN preferences.FileMap
    /\ preferences.FileMap[FileA].SID # RandomShareID(3)
    /\ nextSID = 5

\* ---------------------------------------------------------------- C20
\* C20 (disjoint namespaces): in every reachable state, also when a path of
\* the tree changed on disk from directory to regular file or back between
\* two calls, no path is a key of FileMap and a member of DirMap at once.
C20_DisjointNamespaces ==
    DOMAIN preferences.FileMap \cap preferences.DirMap = {}

====
